---- MODULE Spec2Model ----
(***************************************************************************)
(* Model of linux-maps-parser (src/src/lib.rs): the field decoders, the    *)
(* line loop of parse() and Entries::filter_by_pathname.                   *)
(*                                                                         *)
(* Text is modelled by TLA+ strings, a character is a string of length 1.  *)
(* An unsigned integer is the sequence of its digit values in the radix it *)
(* was written in, most significant first and without leading zeros (zero  *)
(* is the empty sequence), so that 64-bit values keep their full width.    *)
(***************************************************************************)
EXTENDS Integers, Sequences, FiniteSets, TLC

VARIABLES
    fileExists,  \* Path::new("/proc/<pid>/maps").exists()
    lines,       \* what BufReader::lines() yields: a sequence of io::Result<String>
    pc,          \* position of parse(): "start", "open", "loop", "done"
    idx,         \* number of items of `lines` consumed by the for loop
    entries,     \* the local Vec<Entry> of parse()
    result,      \* "none" while running, then "Ok", an Error variant, or "panic"
    opens,       \* number of File::open calls made
    reads,       \* number of items pulled from the line iterator
    filtered,    \* the last filter_by_pathname call made on the returned Entries
    tok,         \* decoder harness: the token handed to a field decoder
    dec          \* decoder harness: the decoder applied and what it produced

vars == <<fileExists, lines, pc, idx, entries, result, opens, reads, filtered, tok, dec>>

parseVars == <<fileExists, lines, pc, idx, entries, result, opens, reads, filtered>>

\* ---------------------------------------------------------------- bounds

MaxLines == 3

MaxTokLen == 5

\* ------------------------------------------------------------- text helpers

Ch(s, i) == SubSeq(s, i, i)

Some(v) == [some |-> TRUE, val |-> v]

None == [some |-> FALSE, val |-> ""]

Ok(v) == [ok |-> TRUE, val |-> v]

Err(k) == [ok |-> FALSE, val |-> k]

\* char::is_whitespace, on the characters the inputs use
is_whitespace(c) == c \in {" ", "\t"}

RECURSIVE SplitWsFrom(_, _, _, _)
SplitWsFrom(s, i, cur, acc) ==
    IF i > Len(s)
    THEN IF cur = "" THEN acc ELSE Append(acc, cur)
    ELSE IF is_whitespace(Ch(s, i))
         THEN SplitWsFrom(s, i + 1, "", IF cur = "" THEN acc ELSE Append(acc, cur))
         ELSE SplitWsFrom(s, i + 1, cur \o Ch(s, i), acc)

\* str::split_whitespace().collect(): the maximal runs of non-whitespace
split_whitespace(s) == SplitWsFrom(s, 1, "", <<>>)

RECURSIVE SplitFrom(_, _, _, _, _)
SplitFrom(s, sep, i, cur, acc) ==
    IF i > Len(s)
    THEN Append(acc, cur)
    ELSE IF Ch(s, i) = sep
         THEN SplitFrom(s, sep, i + 1, "", Append(acc, cur))
         ELSE SplitFrom(s, sep, i + 1, cur \o Ch(s, i), acc)

\* str::split(char).collect(): empty pieces are kept, "" gives one empty piece
split(s, sep) == SplitFrom(s, sep, 1, "", <<>>)

\* Vec::get / slice::get with a zero-based index
get(v, i) == IF i < Len(v) THEN Some(v[i + 1]) ELSE None

\* ------------------------------------------------------- integer parsing

\* char::to_digit(radix): the digit's value, or -1 when c is no digit of the radix
to_digit(c, radix) ==
    LET v == CASE c = "0" -> 0 [] c = "1" -> 1 [] c = "2" -> 2 [] c = "3" -> 3
               [] c = "4" -> 4 [] c = "5" -> 5 [] c = "6" -> 6 [] c = "7" -> 7
               [] c = "8" -> 8 [] c = "9" -> 9
               [] c \in {"a", "A"} -> 10 [] c \in {"b", "B"} -> 11
               [] c \in {"c", "C"} -> 12 [] c \in {"d", "D"} -> 13
               [] c \in {"e", "E"} -> 14 [] c \in {"f", "F"} -> 15
               [] OTHER -> -1
    IN IF v < radix THEN v ELSE -1

\* a < b on digit sequences without leading zeros
RECURSIVE LexLess(_, _)
LexLess(a, b) ==
    IF a = <<>> THEN FALSE
    ELSE IF Head(a) # Head(b) THEN Head(a) < Head(b)
    ELSE LexLess(Tail(a), Tail(b))

NumLess(a, b) == Len(a) < Len(b) \/ (Len(a) = Len(b) /\ LexLess(a, b))

\* u64::MAX in radix 16 and u32::MAX in radix 16 or 10
u64_MAX(radix) ==
    IF radix = 16 THEN [i \in 1..16 |-> 15]
    ELSE <<1, 8, 4, 4, 6, 7, 4, 4, 0, 7, 3, 7, 0, 9, 5, 5, 1, 6, 1, 5>>

u32_MAX(radix) == IF radix = 16 THEN [i \in 1..8 |-> 15] ELSE <<4, 2, 9, 4, 9, 6, 7, 2, 9, 5>>

\* result * radix + digit
MulAdd(acc, d) == IF acc = <<>> /\ d = 0 THEN <<>> ELSE Append(acc, d)

RECURSIVE Accumulate(_, _, _, _, _)
Accumulate(s, i, radix, max, acc) ==
    IF i > Len(s) THEN Ok(acc)
    ELSE LET d == to_digit(Ch(s, i), radix) IN
         IF d = -1 THEN Err("InvalidDigit")
         ELSE IF NumLess(max, MulAdd(acc, d)) THEN Err("PosOverflow")
         ELSE Accumulate(s, i + 1, radix, max, MulAdd(acc, d))

\* <unsigned>::from_str_radix(src, radix): an optional leading '+', then digits
from_str_radix(src, radix, max) ==
    IF src = "" THEN Err("Empty")
    ELSE IF src \in {"+", "-"} THEN Err("InvalidDigit")
    ELSE Accumulate(IF Ch(src, 1) = "+" THEN Tail(src) ELSE src, 1, radix, max, <<>>)

\* ------------------------------------------------------------ field decoders
\* A decoder that can panic returns Panic, otherwise Returns(value).

Panic == [panic |-> TRUE, val |-> <<>>]

Returns(v) == [panic |-> FALSE, val |-> v]

\* .map(|s| uN::from_str_radix(s, 16).unwrap()).collect(): every piece is parsed
\* and unwrapped before any is indexed
UnwrapAll(pieces, max) ==
    IF \E i \in 1..Len(pieces) : ~from_str_radix(pieces[i], 16, max).ok
    THEN Panic
    ELSE Returns([i \in 1..Len(pieces) |-> from_str_radix(pieces[i], 16, max).val])

\* (v[0], v[1]): indexing past the end panics
FirstTwo(v) == IF Len(v) < 2 THEN Panic ELSE Returns(<<v[1], v[2]>>)

\* Mutant of parse_addresses: the pair is returned the wrong way round
parse_addresses_swapped(addresses) ==
    LET splitaddr == UnwrapAll(split(addresses, "-"), u64_MAX(16)) IN
    IF splitaddr.panic \/ Len(splitaddr.val) < 2 THEN Panic
    ELSE Returns(<<splitaddr.val[2], splitaddr.val[1]>>)

parse_addresses(addresses) ==
    LET splitaddr == UnwrapAll(split(addresses, "-"), u64_MAX(16)) IN
    IF splitaddr.panic THEN Panic ELSE FirstTwo(splitaddr.val)

parse_params(params) ==
    IF Len(params) < 3 THEN Panic
    ELSE Returns([read |-> Ch(params, 1) = "r",
                  write |-> Ch(params, 2) = "w",
                  execute |-> Ch(params, 3) = "x"])

parse_offset(offset) ==
    LET r == from_str_radix(offset, 16, u64_MAX(16)) IN
    IF r.ok THEN r ELSE Err("IntParseError")

parse_device(device) ==
    LET splitdev == UnwrapAll(split(device, ":"), u32_MAX(16)) IN
    IF splitdev.panic THEN Panic ELSE FirstTwo(splitdev.val)

\* v.parse::<u32>().unwrap()
parse_inode(v) ==
    LET r == from_str_radix(v, 10, u32_MAX(10)) IN
    IF r.ok THEN Returns(r.val) ELSE Panic

\* ------------------------------------------------------------ parse: the loop

\* Mutant of enough_fields: the threshold is one too low
enough_fields_four(splitted) == Len(splitted) >= 4

\* if splitted.len() >= 5
enough_fields(splitted) == Len(splitted) >= 5

RECURSIVE JoinFrom(_, _)
JoinFrom(v, i) ==
    IF i = Len(v) THEN v[i] ELSE v[i] \o " " \o JoinFrom(v, i + 1)

\* Mutant of entry_path: the tokens after the inode are joined back into one path
entry_path_joined(splitted) ==
    IF Len(splitted) > 5 THEN Some(JoinFrom(splitted, 6)) ELSE None

\* let path = splitted.get(5).map(|v| v.to_string())
entry_path(splitted) == get(splitted, 5)

\* Mutant of push: the entry is inserted at the front
push_front(v, e) == <<e>> \o v

\* entries.push(Entry { .. })
push(v, e) == Append(v, e)

Continue == [kind |-> "continue"]

Panicked == [kind |-> "panic"]

Failed(e) == [kind |-> "err", error |-> e]

Pushed(e) == [kind |-> "push", entry |-> e]

\* One iteration of `for line in lines.flatten()` on the text of a line: what the
\* body does with it. The fields are decoded in source order and the first
\* failure decides: an unwrap or an index out of range panics, `?` returns.
loop_body(line) ==
    LET splitted == split_whitespace(line) IN
    IF ~enough_fields(splitted) THEN Continue
    ELSE IF ~get(splitted, 0).some THEN Continue
    ELSE LET addr == parse_addresses(get(splitted, 0).val) IN
    IF addr.panic THEN Panicked
    ELSE IF ~get(splitted, 1).some THEN Continue
    ELSE LET perms == parse_params(get(splitted, 1).val) IN
    IF perms.panic THEN Panicked
    ELSE IF ~get(splitted, 2).some THEN Continue
    ELSE LET offset == parse_offset(get(splitted, 2).val) IN
    IF ~offset.ok THEN Failed(offset.val)
    ELSE IF ~get(splitted, 3).some THEN Continue
    ELSE LET dev == parse_device(get(splitted, 3).val) IN
    IF dev.panic THEN Panicked
    ELSE IF ~get(splitted, 4).some THEN Continue
    ELSE LET inode == parse_inode(get(splitted, 4).val) IN
    IF inode.panic THEN Panicked
    ELSE Pushed([start_addr |-> addr.val[1],
                 end_addr   |-> addr.val[2],
                 perms      |-> perms.val,
                 offset     |-> offset.val,
                 dev_maj    |-> dev.val[1],
                 dev_min    |-> dev.val[2],
                 inode      |-> inode.val,
                 path       |-> entry_path(splitted)])

\* Mutant of filter_by_pathname: an absent path is compared as the empty string
filter_by_pathname_or_default(self, value) ==
    SelectSeq(self, LAMBDA e : e.path.val = value)

\* Entries::filter_by_pathname(&self, value)
filter_by_pathname(self, value) ==
    SelectSeq(self, LAMBDA e : e.path.some /\ e.path.val = value)

\* ------------------------------------------------------------------ inputs

\* Texts of lines the descriptor may hold: well-formed records with and without a
\* path, with extra tokens and irregular spacing, short lines, and lines of five
\* or more tokens with one field that does not decode.
LineTexts ==
    { "1000-2000 r-xp 0 8:1 5 /a",
      "2000-3000 rw-p 1f 0:0 0",
      "3000-1000 rwxp 0 0:0 7 /b (deleted)",
      " 7fff0-7FFF1\t---p  +10 fd:0 4294967295 /a ",
      "1-2-3 r--p 0 0:0:0 1 /b",
      "",
      "zz-zz rw g 0",
      "zz-zz rwxp 0 00:00 1",
      "1000 rwxp 0 0:0 1",
      "1-2 rw 0 0:0 1",
      "1-2 rwxp g 0:0 1 /a",
      "1-2 rwxp 0 0 1",
      "1-2 rwxp 0 0:0 4294967296" }

\* What the line iterator yields: Ok(text), or Err for a line that is not UTF-8
LineItems == {Ok(t) : t \in LineTexts} \cup {Err("InvalidData")}

RECURSIVE SeqsUpTo(_, _)
SeqsUpTo(S, n) ==
    IF n = 0 THEN {<<>>}
    ELSE LET shorter == SeqsUpTo(S, n - 1) IN
         shorter \cup {Append(q, x) : q \in shorter, x \in S}

RECURSIVE StringsUpTo(_, _)
StringsUpTo(A, n) ==
    IF n = 0 THEN {""}
    ELSE LET shorter == StringsUpTo(A, n - 1) IN
         shorter \cup {q \o c : q \in shorter, c \in A}

\* Values filter_by_pathname is called with
Targets == {"", "/a", "/b", "/c"}

\* Tokens handed to the field decoders on their own
Tokens ==
    StringsUpTo({"1", "f", "g", "-", ":"}, MaxTokLen)
    \cup StringsUpTo({"r", "w", "x", "-"}, MaxTokLen)
    \cup {"+5", "-5", "4294967295", "4294967296", "ffffffff", "100000000",
          "ffffffffffffffff", "10000000000000000", "rwxp", "r--p", "xwrp"}

NoFilter == [called |-> FALSE, value |-> "", out |-> <<>>]

NoDec == [fn |-> "none", out |-> <<>>]

\* ------------------------------------------------------------------- parse

Init ==
    /\ fileExists \in BOOLEAN
    /\ lines \in (IF fileExists THEN SeqsUpTo(LineItems, MaxLines) ELSE {<<>>})
    /\ pc = "start"
    /\ idx = 0
    /\ entries = <<>>
    /\ result = "none"
    /\ opens = 0
    /\ reads = 0
    /\ filtered = NoFilter
    /\ tok = ""
    /\ dec = NoDec

\* Mutant of ParseExists: the result of the existence check is not acted on
ParseExists_unchecked ==
    /\ pc = "start"
    /\ pc' = "open"
    /\ UNCHANGED <<fileExists, lines, idx, entries, result, opens, reads, filtered, tok, dec>>

\* let maps_file_exists = ..exists(); if !maps_file_exists { return Err(..) }
ParseExists ==
    /\ pc = "start"
    /\ IF ~fileExists
       THEN pc' = "done" /\ result' = "MapsFileDoesNotExist"
       ELSE pc' = "open" /\ UNCHANGED result
    /\ UNCHANGED <<fileExists, lines, idx, entries, opens, reads, filtered, tok, dec>>

\* File::open(..).map_err(Error::FileOpenError)?: the open of an existing file
\* can still fail (permissions, the process gone since the check)
ParseOpen ==
    /\ pc = "open"
    /\ opens' = opens + 1
    /\ \E opened \in (IF fileExists THEN BOOLEAN ELSE {FALSE}) :
         IF opened
         THEN pc' = "loop" /\ UNCHANGED result
         ELSE pc' = "done" /\ result' = "FileOpenError"
    /\ UNCHANGED <<fileExists, lines, idx, entries, reads, filtered, tok, dec>>

\* One iteration of `for line in lines.flatten()`: an Err item is dropped by
\* flatten, an Ok item goes through the loop body.
ParseLine ==
    /\ pc = "loop"
    /\ idx < Len(lines)
    /\ idx' = idx + 1
    /\ reads' = reads + 1
    /\ LET item == lines[idx + 1]
           o    == IF item.ok THEN loop_body(item.val) ELSE Continue
       IN CASE o.kind = "continue" -> UNCHANGED <<pc, entries, result>>
            [] o.kind = "push"     -> /\ entries' = push(entries, o.entry)
                                      /\ UNCHANGED <<pc, result>>
            [] o.kind = "err"      -> /\ pc' = "done"
                                      /\ result' = o.error
                                      /\ UNCHANGED entries
            [] o.kind = "panic"    -> /\ pc' = "done"
                                      /\ result' = "panic"
                                      /\ UNCHANGED entries
    /\ UNCHANGED <<fileExists, lines, opens, filtered, tok, dec>>

\* Ok(Entries { entries }) once the iterator is exhausted
ParseReturn ==
    /\ pc = "loop"
    /\ idx = Len(lines)
    /\ pc' = "done"
    /\ result' = "Ok"
    /\ UNCHANGED <<fileExists, lines, idx, entries, opens, reads, filtered, tok, dec>>

\* A caller holding the returned Entries queries it
FilterByPathname ==
    /\ pc = "done"
    /\ result = "Ok"
    /\ \E value \in Targets :
         filtered' = [called |-> TRUE, value |-> value,
                      out |-> filter_by_pathname(entries, value)]
    /\ UNCHANGED <<fileExists, lines, pc, idx, entries, result, opens, reads, tok, dec>>

Next ==
    \/ ParseExists
    \/ ParseOpen
    \/ ParseLine
    \/ ParseReturn
    \/ FilterByPathname

Spec == Init /\ [][Next]_vars

\* -------------------------------------------------- the decoders on their own

InitDecoders ==
    /\ fileExists = FALSE
    /\ lines = <<>>
    /\ pc = "start"
    /\ idx = 0
    /\ entries = <<>>
    /\ result = "none"
    /\ opens = 0
    /\ reads = 0
    /\ filtered = NoFilter
    /\ tok \in Tokens
    /\ dec = NoDec

Apply(fn, out) ==
    /\ dec = NoDec
    /\ dec' = [fn |-> fn, out |-> out]
    /\ UNCHANGED <<parseVars, tok>>

ApplyParseAddresses == Apply("parse_addresses", parse_addresses(tok))

ApplyParseParams == Apply("parse_params", parse_params(tok))

ApplyParseOffset == Apply("parse_offset", parse_offset(tok))

ApplyParseDevice == Apply("parse_device", parse_device(tok))

ApplyParseInode == Apply("parse_inode", parse_inode(tok))

NextDecoders ==
    \/ ApplyParseAddresses
    \/ ApplyParseParams
    \/ ApplyParseOffset
    \/ ApplyParseDevice
    \/ ApplyParseInode

SpecDecoders == InitDecoders /\ [][NextDecoders]_vars

\* ------------------------------------------------------- stating the claims
\* The tokens of a line, read off the text directly: a token starts at a
\* non-whitespace character that is first or follows whitespace.

TokenStarts(t) ==
    {i \in 1..Len(t) : ~is_whitespace(Ch(t, i)) /\ (i = 1 \/ is_whitespace(Ch(t, i - 1)))}

TokenCount(t) == Cardinality(TokenStarts(t))

\* the k-th smallest member of a set of numbers
Kth(S, k) == CHOOSE i \in S : Cardinality({j \in S : j < i}) = k - 1

TokenEnd(t, i) ==
    CHOOSE j \in i..Len(t) :
        /\ \A m \in i..j : ~is_whitespace(Ch(t, m))
        /\ (j = Len(t) \/ is_whitespace(Ch(t, j + 1)))

TokenAt(t, k) == LET i == Kth(TokenStarts(t), k) IN SubSeq(t, i, TokenEnd(t, i))

\* the positions in `lines` of the lines with five or more tokens
LongLines == {i \in 1..Len(lines) : lines[i].ok /\ TokenCount(lines[i].val) >= 5}

\* the text of the line the k-th entry was decoded from
SourceLine(k) == lines[Kth(LongLines, k)].val

HexOk(s, max) == from_str_radix(s, 16, max).ok

\* Every field of a line of five or more tokens decodes: the address and device
\* tokens have their separator and hexadecimal pieces, the permission token has
\* three characters or more, the offset is hexadecimal and the inode a decimal
\* u32. (Whether pieces after the second are an error is C8's question, so a
\* token with such pieces is not counted as failing here.)
WellFormed(t) ==
    LET a == split(TokenAt(t, 1), "-")
        d == split(TokenAt(t, 4), ":")
    IN /\ Len(a) >= 2 /\ \A i \in 1..Len(a) : HexOk(a[i], u64_MAX(16))
       /\ Len(TokenAt(t, 2)) >= 3
       /\ HexOk(TokenAt(t, 3), u64_MAX(16))
       /\ Len(d) >= 2 /\ \A i \in 1..Len(d) : HexOk(d[i], u32_MAX(16))
       /\ from_str_radix(TokenAt(t, 5), 10, u32_MAX(10)).ok

MalformedLong(item) == item.ok /\ TokenCount(item.val) >= 5 /\ ~WellFormed(item.val)

\* C1: whatever the lines are, parse ends by returning a collection or an error
\* value; it never panics.
C1_NeverPanics == result # "panic"

\* C2: a line with five or more tokens one of whose fields does not decode stops
\* the parse at that line with a decode error returned to the caller; no
\* collection is returned and the line is not skipped.
C2_MalformedLongLineReturnsError ==
    \A i \in 1..idx :
        MalformedLong(lines[i]) => (pc = "done" /\ idx = i /\ result = "IntParseError")

\* C3: a successful parse returns as many entries as the input has lines with five
\* or more tokens, the k-th entry being the record decoded from the k-th such line.
C3_CountAndOrder ==
    result = "Ok" =>
        /\ Len(entries) = Cardinality(LongLines)
        /\ \A k \in 1..Len(entries) : loop_body(SourceLine(k)) = Pushed(entries[k])

C3_Witness ==
    /\ result = "Ok"
    /\ LongLines = {1, 3}
    /\ Len(entries) = 2
    /\ entries[1] # entries[2]

\* C4: a line with fewer than five tokens, wherever it stands and whatever it
\* holds, is skipped: no entry is added, no error is raised, the loop goes on and
\* the entries gathered so far stay as they are.
C4_ShortLineSkipped ==
    [][(/\ pc = "loop"
        /\ idx < Len(lines)
        /\ lines[idx + 1].ok
        /\ TokenCount(lines[idx + 1].val) < 5)
       => (/\ entries' = entries
           /\ result' = "none"
           /\ pc' = "loop"
           /\ idx' = idx + 1)]_vars

C4_Witness ==
    /\ pc = "loop"
    /\ idx = 2
    /\ lines[2].ok
    /\ TokenCount(lines[2].val) = 4
    /\ Len(entries) = 1

\* C5: when the descriptor does not exist, parse returns MapsFileDoesNotExist at
\* once: no open is attempted and no line is read.
C5_AbsentFastPath ==
    /\ ~fileExists => pc \in {"start", "done"}
    /\ (~fileExists /\ pc = "done") => result = "MapsFileDoesNotExist"
    /\ result = "MapsFileDoesNotExist" => (~fileExists /\ opens = 0 /\ reads = 0)

C5_Witness == result = "MapsFileDoesNotExist" /\ pc = "done"

\* C6: filter_by_pathname(value) returns exactly the entries whose path is present
\* and equal to value, in the collection's order; an entry with an absent path
\* never matches, and the collection is left unchanged.
C6_FilterExact ==
    [][filtered' # filtered =>
        /\ entries' = entries
        /\ LET out == filtered'.out
               M   == {i \in 1..Len(entries) : entries[i].path = Some(filtered'.value)}
           IN /\ Len(out) = Cardinality(M)
              /\ \A k \in 1..Len(out) : out[k] = entries[Kth(M, k)]
              /\ \A i \in 1..Len(entries) : ~entries[i].path.some => i \notin M]_vars

C6_Witness ==
    /\ filtered.called
    /\ filtered.value = ""
    /\ filtered.out = <<>>
    /\ \E i \in 1..Len(entries) : ~entries[i].path.some

\* C7 as stated: every entry of a successfully returned collection has
\* end_addr > start_addr.
C7_EndAboveStart ==
    result = "Ok" =>
        \A k \in 1..Len(entries) : NumLess(entries[k].start_addr, entries[k].end_addr)

\* C7 as amended: every entry of a successfully returned collection has start_addr
\* and end_addr equal to the first and second hexadecimal pieces of its line's
\* address token, so end_addr > start_addr holds exactly when the line states it.
C7_RangeAsWritten ==
    result = "Ok" =>
        \A k \in 1..Len(entries) :
            LET a  == split(TokenAt(SourceLine(k), 1), "-")
                lo == from_str_radix(a[1], 16, u64_MAX(16)).val
                hi == from_str_radix(a[2], 16, u64_MAX(16)).val
            IN /\ entries[k].start_addr = lo
               /\ entries[k].end_addr = hi
               /\ NumLess(entries[k].start_addr, entries[k].end_addr) <=> NumLess(lo, hi)

C7_Witness ==
    /\ result = "Ok"
    /\ Len(entries) = 2
    /\ NumLess(entries[1].start_addr, entries[1].end_addr)
    /\ NumLess(entries[2].end_addr, entries[2].start_addr)

\* C8: the address decoder accepts a token only when splitting it on '-' gives
\* exactly two pieces, each base-16 u64, and returns them as a pair; any other
\* token, one of three pieces included, fails with a format error.
C8_ExactlyTwoPieces ==
    dec.fn = "parse_addresses" =>
        LET a    == split(tok, "-")
            good == Len(a) = 2 /\ HexOk(a[1], u64_MAX(16)) /\ HexOk(a[2], u64_MAX(16))
        IN IF good
           THEN dec.out = Returns(<<from_str_radix(a[1], 16, u64_MAX(16)).val,
                                    from_str_radix(a[2], 16, u64_MAX(16)).val>>)
           ELSE dec.out = Err("FormatError")

\* C9: for a permission token of three or more characters each flag is decided by
\* its own position alone; a shorter token fails with a format error.
C9_FlagsByPosition ==
    dec.fn = "parse_params" =>
        IF Len(tok) >= 3
        THEN dec.out = Returns([read    |-> SubSeq(tok, 1, 1) = "r",
                                write   |-> SubSeq(tok, 2, 2) = "w",
                                execute |-> SubSeq(tok, 3, 3) = "x"])
        ELSE dec.out = Err("FormatError")

\* C10: the path of an entry is the sixth token of its line, taken verbatim, when
\* the line has six or more tokens, and is absent when it has exactly five.
C10_PathIsSixthToken ==
    \A k \in 1..Len(entries) :
        LET t == SourceLine(k) IN
        entries[k].path = IF TokenCount(t) >= 6 THEN Some(TokenAt(t, 6)) ELSE None

C10_Witness ==
    /\ Len(entries) = 2
    /\ TokenCount(SourceLine(1)) = 5
    /\ TokenCount(SourceLine(2)) = 7
    /\ entries[2].path = Some("/b")

====
